---- MODULE Spec2Model ----
(***************************************************************************)
(* Stand allocation with adjacency rules (src/adjacency-demo.py).          *)
(*                                                                         *)
(* The notebook builds a CP-SAT model in four phases and then solves it:   *)
(*   1. the variable builder (lines 104-123): one presence flag and one    *)
(*      optional occupancy interval per feasible (turn, stand) pair;       *)
(*   2. the core constraints (lines 125-129): exactly one stand per turn,  *)
(*      no overlap per stand;                                              *)
(*   3. apply_adjacency_rules (lines 204-253): per rule, one shadow        *)
(*      interval per candidate on stand_a or stand_b, one no-overlap;      *)
(*   4. solve and report (lines 317-336).                                  *)
(*                                                                         *)
(* Python dicts keep insertion order, and the notebook iterates them, so a *)
(* dict is modelled as a sequence of [key, value] records in insertion     *)
(* order.  Python lists are sequences; indices are 1-based here and        *)
(* 0-based in the source.  Turn.turn_seq, which nothing reads, is left     *)
(* out.                                                                    *)
(*                                                                         *)
(* The solver is the external collaborator: it is modelled by what its     *)
(* constraints mean.  A solution is a truth value for every Boolean        *)
(* variable such that every exactly-one holds, every present interval has  *)
(* size >= 0 and start + size = end, and the present intervals of every    *)
(* no-overlap are pairwise disjoint.  The solver of line 317 has no limit  *)
(* and the model no objective, so the solve returns OPTIMAL with any       *)
(* solution or INFEASIBLE when there is none.  The report (lines 320-336)  *)
(* also has branches for FEASIBLE and for any other status.                *)
(***************************************************************************)
EXTENDS Integers, Sequences, FiniteSets, TLC

VARIABLES
    turns,                    \* list[Turn]
    stands,                   \* list[Stand], as their stand_id
    feasibility,              \* feasibility[t_idx][s_idx]
    adjacency_rules,          \* list[AdjacencyRule]
    model,                    \* the CpModel: variables and constraints
    intervals_per_stand,      \* dict stand_id -> list of intervals
    presence_vars_per_flight, \* dict turn_id -> list of presence flags
    assignments,              \* dict (turn_id, stand_id) -> candidate
    status,                   \* the solver's verdict
    solution,                 \* solver.Value of every Boolean variable
    printed,                  \* the lines printed by the last cell
    pc                        \* the notebook cell reached

vars == <<turns, stands, feasibility, adjacency_rules, model,
          intervals_per_stand, presence_vars_per_flight, assignments,
          status, solution, printed, pc>>

----------------------------------------------------------------------------
(* Bounds of the checked instances.                                        *)

\* Times of the bounded instances lie in 0..MaxTime.
MaxTime == 3

\* Window offsets of the bounded instances are -MaxOffset, 0 or MaxOffset.
MaxOffset == 1

----------------------------------------------------------------------------
(* Python containers.                                                      *)

Range(s) == {s[i] : i \in DOMAIN s}

\* dict: `key in d`
DictHas(d, k) == \E i \in DOMAIN d : d[i].key = k

\* dict: `d[key]` for a key that is present
DictGet(d, k) == d[CHOOSE i \in DOMAIN d : d[i].key = k].value

\* dict: `d[key] = value`; a new key goes last, an old key keeps its place
DictSet(d, k, v) ==
    IF DictHas(d, k)
    THEN [i \in DOMAIN d |-> IF d[i].key = k THEN [key |-> k, value |-> v]
                                               ELSE d[i]]
    ELSE Append(d, [key |-> k, value |-> v])

\* defaultdict(list): `d[key].append(value)`
DictAppend(d, k, v) ==
    IF DictHas(d, k) THEN DictSet(d, k, Append(DictGet(d, k), v))
                     ELSE DictSet(d, k, <<v>>)

DictKeys(d) == {d[i].key : i \in DOMAIN d}

----------------------------------------------------------------------------
(* The CpModel, as far as the notebook uses it.                            *)

\* cp_model.CpModel()
CpModel == [bool_vars |-> <<>>, intervals |-> <<>>,
            exactly_one |-> <<>>, no_overlap |-> <<>>]

\* The variable model.NewBoolVar(name) returns: a new variable of the model,
\* known by its index (0-based, as in the model proto); two variables may
\* carry the same name
BoolVar(m, name) == [index |-> Len(m.bool_vars), name |-> name]

\* model.NewBoolVar(name)
NewBoolVar(m, name) == [m EXCEPT !.bool_vars = Append(@, BoolVar(m, name))]

\* model.NewOptionalIntervalVar(start, size, end, is_present, name)
IntervalVar(start, size, end, is_present, name) ==
    [start |-> start, size |-> size, end |-> end,
     is_present |-> is_present, name |-> name]

NewOptionalIntervalVar(m, iv) == [m EXCEPT !.intervals = Append(@, iv)]

\* model.AddExactlyOne(bool_vars)
AddExactlyOne(m, bool_vars) == [m EXCEPT !.exactly_one = Append(@, bool_vars)]

\* model.AddNoOverlap(intervals)
AddNoOverlap(m, intervals) == [m EXCEPT !.no_overlap = Append(@, intervals)]

----------------------------------------------------------------------------
(* Phase 1: the variable builder, lines 104-123.                           *)

\* the feasibility test left out
FeasibleEntry_Ignored(feas, t_idx, s_idx) == TRUE

\* line 106: `if not feasibility[t_idx][s_idx]: continue`
FeasibleEntry(feas, t_idx, s_idx) == feas[t_idx][s_idx]

\* lines 108-110: the presence flag f"{turn_id}_on_{stand_id}"
PresenceName(turn_id, stand_id) == <<turn_id, "on", stand_id>>

\* lines 111-117: the occupancy interval of a candidate
OccupancyInterval(turn, stand_id, is_present) ==
    IntervalVar(turn.arrival_time,
                turn.departure_time - turn.arrival_time,
                turn.departure_time,
                is_present,
                <<"stand", stand_id, "for", turn.turn_id>>)

\* lines 108-123: the body of the double loop for one feasible pair
CreateCandidate(b, turn, stand_id) ==
    LET name == PresenceName(turn.turn_id, stand_id)
        is_present == BoolVar(b.model, name)
        var == OccupancyInterval(turn, stand_id, is_present)
    IN  [model |-> NewOptionalIntervalVar(NewBoolVar(b.model, name), var),
         intervals_per_stand |->
             DictAppend(b.intervals_per_stand, stand_id, var),
         presence_vars_per_flight |->
             DictAppend(b.presence_vars_per_flight, turn.turn_id, is_present),
         assignments |->
             DictSet(b.assignments, <<turn.turn_id, stand_id>>,
                     [is_present |-> is_present, interval |-> var])]

\* lines 104-123: the double loop, turn-major; k counts the iterations
RECURSIVE BuildLoop(_, _, _, _, _)
BuildLoop(b, tns, sts, feas, k) ==
    IF k > Len(tns) * Len(sts) THEN b
    ELSE LET t_idx == ((k - 1) \div Len(sts)) + 1
             s_idx == ((k - 1) % Len(sts)) + 1
         IN  BuildLoop(IF FeasibleEntry(feas, t_idx, s_idx)
                       THEN CreateCandidate(b, tns[t_idx], sts[s_idx])
                       ELSE b,
                       tns, sts, feas, k + 1)

\* lines 88-95 and 104-123
BuildVariables(tns, sts, feas) ==
    BuildLoop([model |-> CpModel, intervals_per_stand |-> <<>>,
               presence_vars_per_flight |-> <<>>, assignments |-> <<>>],
              tns, sts, feas, 1)

----------------------------------------------------------------------------
(* Phase 2: the core constraints, lines 125-129.                           *)

\* lines 125-126: one exactly-one per entry of presence_vars_per_flight
RECURSIVE AddExactlyOnePerFlight(_, _, _)
AddExactlyOnePerFlight(m, pvf, i) ==
    IF i > Len(pvf) THEN m
    ELSE AddExactlyOnePerFlight(AddExactlyOne(m, pvf[i].value), pvf, i + 1)

\* lines 128-129: one no-overlap per entry of intervals_per_stand
RECURSIVE AddNoOverlapPerStand(_, _, _)
AddNoOverlapPerStand(m, ips, i) ==
    IF i > Len(ips) THEN m
    ELSE AddNoOverlapPerStand(AddNoOverlap(m, ips[i].value), ips, i + 1)

\* the loop of lines 128-129 left out
CoreConstraints_NoStandOverlap(m, pvf, ips) == AddExactlyOnePerFlight(m, pvf, 1)

\* lines 125-129
CoreConstraints(m, pvf, ips) ==
    AddNoOverlapPerStand(AddExactlyOnePerFlight(m, pvf, 1), ips, 1)

----------------------------------------------------------------------------
(* Phase 3: the adjacency rules, lines 146-253.                            *)

\* class TimeAnchor
TimeAnchor == {"ARRIVAL", "DEPARTURE"}

\* class TimeWindowDefinition
TimeWindowDefinition(sa, so, ea, eo) ==
    [start_anchor |-> sa, start_offset_minutes |-> so,
     end_anchor |-> ea, end_offset_minutes |-> eo]

\* class AdjacencyRule
AdjacencyRule(name, a, b, wa, wb) ==
    [name |-> name, stand_a |-> a, stand_b |-> b,
     time_constraint_a |-> wa, time_constraint_b |-> wb]

\* a slip in the end anchor: both ends measured from the start anchor's base
_compute_shadow_times_OneBase(arr, dep, time_constraint) ==
    LET base_start == IF time_constraint.start_anchor = "ARRIVAL" THEN arr ELSE dep
    IN  <<base_start + time_constraint.start_offset_minutes,
          base_start + time_constraint.end_offset_minutes>>

\* lines 181-191
_compute_shadow_times(arr, dep, time_constraint) ==
    LET base_start == IF time_constraint.start_anchor = "ARRIVAL" THEN arr ELSE dep
        s_start == base_start + time_constraint.start_offset_minutes
        base_end == IF time_constraint.end_anchor = "ARRIVAL" THEN arr ELSE dep
        s_end == base_end + time_constraint.end_offset_minutes
    IN  <<s_start, s_end>>

\* lines 221-223: turn_times[t_id]; the dict comprehension keeps, for a
\* turn_id that occurs more than once, the last turn of that id
TurnTimes(tns, t_id) ==
    LET last == CHOOSE i \in DOMAIN tns :
                    /\ tns[i].turn_id = t_id
                    /\ \A j \in DOMAIN tns : tns[j].turn_id = t_id => j <= i
    IN  <<tns[last].arrival_time, tns[last].departure_time>>

\* lines 230-238 and 241-249: the shadow interval of one candidate
ShadowInterval(tns, rule, t_id, s_id, assignment, time_constraint) ==
    LET tt == TurnTimes(tns, t_id)
        st == _compute_shadow_times(tt[1], tt[2], time_constraint)
    IN  IntervalVar(st[1], st[2] - st[1], st[2], assignment.is_present,
                    <<"Shadow", rule.name, t_id, s_id>>)

\* the `elif s_id == rule.stand_b` branch left out
RuleSide_OnlyA(rule, s_id) == IF s_id = rule.stand_a THEN "a" ELSE "none"

\* `else` written for `elif s_id == rule.stand_b`
RuleSide_ElseB(rule, s_id) == IF s_id = rule.stand_a THEN "a" ELSE "b"

\* lines 229 and 240: the side of the rule a candidate's stand is on
RuleSide(rule, s_id) ==
    IF s_id = rule.stand_a THEN "a"
    ELSE IF s_id = rule.stand_b THEN "b" ELSE "none"

\* lines 228-250: the scan of assignments.items() for one rule; r holds the
\* model and the list `shadows`
RECURSIVE ShadowLoop(_, _, _, _, _)
ShadowLoop(r, tns, asg, rule, i) ==
    IF i > Len(asg) THEN r
    ELSE LET t_id == asg[i].key[1]
             s_id == asg[i].key[2]
             side == RuleSide(rule, s_id)
             sh == ShadowInterval(tns, rule, t_id, s_id, asg[i].value,
                                  IF side = "a" THEN rule.time_constraint_a
                                                ELSE rule.time_constraint_b)
         IN  ShadowLoop(IF side = "none" THEN r
                        ELSE [model |-> NewOptionalIntervalVar(r.model, sh),
                              shadows |-> Append(r.shadows, sh)],
                        tns, asg, rule, i + 1)

\* `if shadows:` left out
ApplyRule_AlwaysPost(m, tns, asg, rule) ==
    LET r == ShadowLoop([model |-> m, shadows |-> <<>>], tns, asg, rule, 1)
    IN  AddNoOverlap(r.model, r.shadows)

\* one no-overlap per pair of a shadow on stand_a and a shadow on stand_b,
\* instead of one no-overlap over all the shadows of the rule
RECURSIVE AddCrossPairs(_, _, _, _)
AddCrossPairs(m, A, B, k) ==
    IF k > Len(A) * Len(B) THEN m
    ELSE AddCrossPairs(AddNoOverlap(m, <<A[((k - 1) \div Len(B)) + 1],
                                         B[((k - 1) % Len(B)) + 1]>>),
                       A, B, k + 1)

ShadowOnStandA(rule, sh) == sh.name[4] = rule.stand_a

ApplyRule_CrossPairsOnly(m, tns, asg, rule) ==
    LET r == ShadowLoop([model |-> m, shadows |-> <<>>], tns, asg, rule, 1)
        A == SelectSeq(r.shadows, LAMBDA sh : ShadowOnStandA(rule, sh))
        B == SelectSeq(r.shadows, LAMBDA sh : ~ShadowOnStandA(rule, sh))
    IN  AddCrossPairs(r.model, A, B, 1)

\* lines 226-253: the body of `for rule in adjacency_rules`
ApplyRule(m, tns, asg, rule) ==
    LET r == ShadowLoop([model |-> m, shadows |-> <<>>], tns, asg, rule, 1)
    IN  IF r.shadows # <<>> THEN AddNoOverlap(r.model, r.shadows) ELSE r.model

\* lines 204-253
RECURSIVE RuleLoop(_, _, _, _, _)
RuleLoop(m, tns, asg, rules, i) ==
    IF i > Len(rules) THEN m
    ELSE RuleLoop(ApplyRule(m, tns, asg, rules[i]), tns, asg, rules, i + 1)

apply_adjacency_rules(m, tns, asg, rules) == RuleLoop(m, tns, asg, rules, 1)

----------------------------------------------------------------------------
(* Phase 4: the solve, lines 317-336.                                      *)

\* AddExactlyOne: exactly one literal of the list is true
ExactlyOneHolds(v, bool_vars) ==
    Cardinality({i \in DOMAIN bool_vars : v[bool_vars[i]]}) = 1

\* An optional interval: when present, size >= 0 and start + size = end
IntervalHolds(v, iv) ==
    v[iv.is_present] => (iv.size >= 0 /\ iv.start + iv.size = iv.end)

\* AddNoOverlap: the present intervals are pairwise disjoint
NoOverlapHolds(v, intervals) ==
    \A i, j \in DOMAIN intervals :
        (i < j /\ v[intervals[i].is_present] /\ v[intervals[j].is_present])
            => (intervals[i].end <= intervals[j].start
                \/ intervals[j].end <= intervals[i].start)

Satisfies(m, v) ==
    /\ \A i \in DOMAIN m.exactly_one : ExactlyOneHolds(v, m.exactly_one[i])
    /\ \A i \in DOMAIN m.intervals : IntervalHolds(v, m.intervals[i])
    /\ \A i \in DOMAIN m.no_overlap : NoOverlapHolds(v, m.no_overlap[i])

\* Every valuation the solver may return for model m
Solutions(m) == {v \in [Range(m.bool_vars) -> BOOLEAN] : Satisfies(m, v)}

\* lines 317-318: every outcome of CpSolver().solve(model).  The solver is
\* built with no limit and the model has no objective, so the search runs to
\* its end: OPTIMAL with the values of any solution, INFEASIBLE when there
\* is none
SolverOutcomes(m) ==
    IF Solutions(m) = {}
    THEN {[status |-> "INFEASIBLE", solution |-> <<>>]}
    ELSE {[status |-> "OPTIMAL", solution |-> v] : v \in Solutions(m)}

\* lines 323-331: one line per turn and stand, turn-major, whose candidate
\* is in assignments and selected; k counts the iterations
RECURSIVE AssignedLines(_, _, _, _, _)
AssignedLines(tns, sts, asg, v, k) ==
    IF k > Len(tns) * Len(sts) THEN <<>>
    ELSE LET turn == tns[((k - 1) \div Len(sts)) + 1]
             s_id == sts[((k - 1) % Len(sts)) + 1]
             key == <<turn.turn_id, s_id>>
         IN  (IF DictHas(asg, key) /\ v[DictGet(asg, key).is_present]
              THEN <<<<"Turn", turn.turn_id, "Flight", turn.flight_id,
                       "assigned to -> Stand", s_id>>>>
              ELSE <<>>)
             \o AssignedLines(tns, sts, asg, v, k + 1)

\* lines 320-336: what the cell prints for an outcome of the solve; the last
\* branch prints any other status by its name
Report(tns, sts, asg, outcome) ==
    IF outcome.status \in {"OPTIMAL", "FEASIBLE"}
    THEN <<<<"Solution Found!">>>>
             \o AssignedLines(tns, sts, asg, outcome.solution, 1)
    ELSE IF outcome.status = "INFEASIBLE"
    THEN <<<<"No solution found. The model is infeasible.">>>>
    ELSE <<<<"Solver status:", outcome.status>>>>

----------------------------------------------------------------------------
(* Inputs.                                                                 *)

\* class Turn (lines 27-32), without turn_seq
Turn(id, flight, arr, dep) ==
    [turn_id |-> id, flight_id |-> flight,
     arrival_time |-> arr, departure_time |-> dep]

\* Occupancies with arrival_time < departure_time inside 0..MaxTime
Occupancies == {x \in (0 .. MaxTime) \X (0 .. MaxTime) : x[1] < x[2]}

\* Two turns, in any order of arrival
BoundedTurns ==
    {<<Turn("1", "FR13", x[1], x[2]), Turn("2", "FR42", y[1], y[2])>> :
        x, y \in Occupancies}

\* Two turns that carry the same turn_id: nothing in Turn or in the notebook
\* keeps the ids of a turn list apart
RepeatedIdTurns ==
    {<<Turn("1", "FR13", x[1], x[2]), Turn("1", "FR42", y[1], y[2])>> :
        x, y \in Occupancies}

\* Two stands
BoundedStands == <<"1L", "1C">>

\* Every Boolean matrix of nT rows and nS columns
FeasibilityMatrices(nT, nS) == [1 .. nT -> [1 .. nS -> BOOLEAN]]

\* The window of the demo rules (lines 272-283): the raw occupancy
IdentityWindow == TimeWindowDefinition("ARRIVAL", 0, "DEPARTURE", 0)

\* Wider than the occupancy on both ends
WidenedWindow ==
    TimeWindowDefinition("ARRIVAL", 0 - MaxOffset, "DEPARTURE", MaxOffset)

\* The pushback: the last minutes before departure
PushbackWindow == TimeWindowDefinition("DEPARTURE", 0 - MaxOffset, "DEPARTURE", 0)

\* Narrower than the occupancy on both ends: start > end for a short turn
ShrunkWindow ==
    TimeWindowDefinition("ARRIVAL", MaxOffset, "DEPARTURE", 0 - MaxOffset)

BoundedWindows == {IdentityWindow, WidenedWindow, PushbackWindow, ShrunkWindow}

\* The stands a rule may name: the two stands in either order, one stand on
\* both sides, an unknown stand ("9Z") on either side or on both
RuleStandPairs ==
    {<<"1L", "1C">>, <<"1C", "1L">>, <<"1L", "1L">>,
     <<"1L", "9Z">>, <<"9Z", "1C">>, <<"9Z", "9Z">>}

\* One rule, any of these stand pairs, any two windows
BoundedRules ==
    {<<AdjacencyRule("r1", p[1], p[2], wa, wb)>> :
        p \in RuleStandPairs, wa \in BoundedWindows, wb \in BoundedWindows}

\* Every window with offsets -MaxOffset, 0 or MaxOffset
AllWindows ==
    {TimeWindowDefinition(sa, so, ea, eo) :
        sa \in TimeAnchor, ea \in TimeAnchor,
        so \in {0 - MaxOffset, 0, MaxOffset},
        eo \in {0 - MaxOffset, 0, MaxOffset}}

\* One rule between the two stands, any two windows
AllWindowRules ==
    {<<AdjacencyRule("r1", "1L", "1C", wa, wb)>> :
        wa \in AllWindows, wb \in AllWindows}

\* lines 42-47
DemoTurns ==
    <<Turn("1", "FR13", 20, 55), Turn("2", "FR42", 10, 35),
      Turn("3", "FR66", 35, 60), Turn("4", "FR99", 25, 50)>>

\* lines 49-55
DemoStands == <<"1L", "1C", "2L", "2C", "2R">>

\* lines 68-74: all true but (0,0), (1,0), (3,0), (3,2), (3,4), 0-based
DemoFeasibility ==
    [t \in 1 .. 4 |-> [s \in 1 .. 5 |->
        <<t, s>> \notin {<<1, 1>>, <<2, 1>>, <<4, 1>>, <<4, 3>>, <<4, 5>>}]]

\* lines 266-303
DemoRules ==
    <<AdjacencyRule("1L_1C_adjacency", "1L", "1C", IdentityWindow, IdentityWindow),
      AdjacencyRule("2L_2C_adjacency", "2L", "2C", IdentityWindow, IdentityWindow)>>

\* The demo's matrix, or the demo's matrix with one more pair made infeasible
DemoFeasibilities ==
    {DemoFeasibility} \cup
    {[DemoFeasibility EXCEPT ![t][s] = FALSE] : t \in 1 .. 4, s \in 1 .. 5}

\* The demo's rules, or the first k of them
DemoRuleLists == {SubSeq(DemoRules, 1, k) : k \in 0 .. Len(DemoRules)}

----------------------------------------------------------------------------
(* The notebook as a state machine: one action per cell that changes the   *)
(* model or solves it.                                                     *)

\* lines 88-95: the empty model and the empty registries
Blank ==
    /\ model = CpModel
    /\ intervals_per_stand = <<>>
    /\ presence_vars_per_flight = <<>>
    /\ assignments = <<>>
    /\ status = "NONE"
    /\ solution = <<>>
    /\ printed = <<>>
    /\ pc = "start"

\* Two turns on two stands: any feasibility, any one rule
InitTwoStands ==
    /\ turns \in BoundedTurns
    /\ stands = BoundedStands
    /\ feasibility \in FeasibilityMatrices(Len(turns), Len(stands))
    /\ adjacency_rules \in BoundedRules
    /\ Blank

\* Two turns on three stands: any feasibility, one rule between the first
\* two stands with the same window on both sides (as the rules of lines
\* 266-303 have), the third stand free of rules
InitThreeStands ==
    /\ turns \in BoundedTurns
    /\ stands = BoundedStands \o <<"2L">>
    /\ feasibility \in FeasibilityMatrices(Len(turns), Len(stands))
    /\ adjacency_rules \in
          {<<AdjacencyRule("r1", "1L", "1C", w, w)>> : w \in BoundedWindows}
    /\ Blank

Init == InitTwoStands \/ InitThreeStands

\* lines 104-129: the cell that creates the candidates and the core constraints
BuildCoreModel ==
    /\ pc = "start"
    /\ LET b == BuildVariables(turns, stands, feasibility)
       IN  /\ intervals_per_stand' = b.intervals_per_stand
           /\ presence_vars_per_flight' = b.presence_vars_per_flight
           /\ assignments' = b.assignments
           /\ model' = CoreConstraints(b.model, b.presence_vars_per_flight,
                                       b.intervals_per_stand)
    /\ pc' = "core"
    /\ UNCHANGED <<turns, stands, feasibility, adjacency_rules,
                   status, solution, printed>>

\* line 307
ApplyAdjacencyRules ==
    /\ pc = "core"
    /\ model' = apply_adjacency_rules(model, turns, assignments, adjacency_rules)
    /\ pc' = "adjacency"
    /\ UNCHANGED <<turns, stands, feasibility, adjacency_rules,
                   intervals_per_stand, presence_vars_per_flight, assignments,
                   status, solution, printed>>

\* lines 317-336
SolveAndReport ==
    /\ pc = "adjacency"
    /\ \E outcome \in SolverOutcomes(model) :
          /\ status' = outcome.status
          /\ solution' = outcome.solution
          /\ printed' = Report(turns, stands, assignments, outcome)
    /\ pc' = "solved"
    /\ UNCHANGED <<turns, stands, feasibility, adjacency_rules, model,
                   intervals_per_stand, presence_vars_per_flight, assignments>>

Next == BuildCoreModel \/ ApplyAdjacencyRules \/ SolveAndReport

Spec == Init /\ [][Next]_vars

\* Two turns, of distinct or of the same turn_id, on two stands, every pair
\* feasible, one rule with any windows
InitShadow ==
    /\ \/ /\ turns \in BoundedTurns
          /\ adjacency_rules \in AllWindowRules
       \/ /\ turns \in RepeatedIdTurns
          /\ adjacency_rules \in
                {<<AdjacencyRule("r1", "1L", "1C", wa, wb)>> :
                    wa \in BoundedWindows, wb \in BoundedWindows}
    /\ stands = BoundedStands
    /\ feasibility = [t \in 1 .. Len(turns) |-> [s \in 1 .. Len(stands) |-> TRUE]]
    /\ Blank

SpecShadow == InitShadow /\ [][Next]_vars

\* The demo instance of the notebook and its neighbours
InitDemo ==
    /\ turns = DemoTurns
    /\ stands = DemoStands
    /\ feasibility \in DemoFeasibilities
    /\ adjacency_rules \in DemoRuleLists
    /\ Blank

SpecDemo == InitDemo /\ [][Next]_vars

----------------------------------------------------------------------------
(* Vocabulary of the properties.                                           *)

\* The solve has ended with a verdict that is read as a solution
Accepted == pc = "solved" /\ status \in {"OPTIMAL", "FEASIBLE"}

Assembled == pc \in {"adjacency", "solved"}

\* The candidate (t_id, s_id) exists and the solution selects it
Placed(t_id, s_id) ==
    /\ DictHas(assignments, <<t_id, s_id>>)
    /\ solution[DictGet(assignments, <<t_id, s_id>>).is_present]

TurnOf(t_id) == turns[CHOOSE i \in DOMAIN turns : turns[i].turn_id = t_id]

\* [a1, d1) and [a2, d2) share an instant
RawOverlap(t1, t2) ==
    /\ t1.arrival_time < t2.departure_time
    /\ t2.arrival_time < t1.departure_time

RowAllFalse(t) == \A s \in DOMAIN stands : ~feasibility[t][s]

FeasiblePairs ==
    {<<turns[t].turn_id, stands[s]>> :
        <<t, s>> \in {x \in (DOMAIN turns) \X (DOMAIN stands) :
                        feasibility[x[1]][x[2]]}}

\* The model as the first cell leaves it, before any adjacency rule
CoreModel ==
    LET b == BuildVariables(turns, stands, feasibility)
    IN  CoreConstraints(b.model, b.presence_vars_per_flight,
                        b.intervals_per_stand)

\* Some candidate stands on stand_a or on stand_b of the rule
RuleHasCandidate(rule) ==
    \E k \in DictKeys(assignments) : k[2] \in {rule.stand_a, rule.stand_b}

\* The rule list without its r-th rule
WithoutRule(r) ==
    SubSeq(adjacency_rules, 1, r - 1)
        \o SubSeq(adjacency_rules, r + 1, Len(adjacency_rules))

----------------------------------------------------------------------------
(* C1: when some turn has no feasible stand, the solve never ends OPTIMAL  *)
(* or FEASIBLE, with a solution that leaves the turn out.                  *)
C1_NoFeasibleStandIsInfeasible ==
    (\E t \in DOMAIN turns : RowAllFalse(t)) => ~Accepted

(* C2: in every accepted solution every turn of the input is placed on     *)
(* exactly one stand.                                                      *)
C2_EveryTurnOnExactlyOneStand ==
    Accepted =>
        \A t \in DOMAIN turns :
            Cardinality({s \in DOMAIN stands :
                            Placed(turns[t].turn_id, stands[s])}) = 1

(* C3: in every accepted solution two distinct turns placed on the same    *)
(* stand have disjoint occupancies, a1 >= d2 or a2 >= d1; turns that meet  *)
(* end to start may share a stand (the witness).                           *)
C3_NoOverlapPerStand ==
    Accepted =>
        \A s \in DOMAIN stands : \A t1, t2 \in DOMAIN turns :
            (t1 # t2 /\ Placed(turns[t1].turn_id, stands[s])
                     /\ Placed(turns[t2].turn_id, stands[s]))
                => (turns[t1].arrival_time >= turns[t2].departure_time
                    \/ turns[t2].arrival_time >= turns[t1].departure_time)

C3_BackToBackShareStand ==
    /\ Accepted
    /\ \E s \in DOMAIN stands : \E t1, t2 \in DOMAIN turns :
          /\ turns[t1].departure_time = turns[t2].arrival_time
          /\ Placed(turns[t1].turn_id, stands[s])
          /\ Placed(turns[t2].turn_id, stands[s])

(* C4: once the builder has run, the candidates in assignments, in         *)
(* intervals_per_stand and in presence_vars_per_flight are exactly the     *)
(* pairs whose feasibility entry is true, each once, and an accepted       *)
(* solution places turns on feasible pairs only.                           *)
C4_CandidatesAreTheFeasiblePairs ==
    pc # "start" =>
        /\ DictKeys(assignments) = FeasiblePairs
        /\ Len(assignments) = Cardinality(FeasiblePairs)
        /\ {<<intervals_per_stand[i].key, intervals_per_stand[i].value[j].name>> :
               <<i, j>> \in {x \in (DOMAIN intervals_per_stand) \X (1 .. Len(assignments)) :
                               x[2] <= Len(intervals_per_stand[x[1]].value)}}
             = {<<k[2], <<"stand", k[2], "for", k[1]>>>> : k \in FeasiblePairs}
        /\ {<<presence_vars_per_flight[i].key,
               presence_vars_per_flight[i].value[j].name>> :
               <<i, j>> \in {x \in (DOMAIN presence_vars_per_flight) \X (1 .. Len(assignments)) :
                               x[2] <= Len(presence_vars_per_flight[x[1]].value)}}
             = {<<k[1], <<k[1], "on", k[2]>>>> : k \in FeasiblePairs}
        /\ Len(model.bool_vars) = Cardinality(FeasiblePairs)
        /\ Accepted =>
              /\ DOMAIN solution = Range(model.bool_vars)
              /\ {x.name : x \in DOMAIN solution}
                    = {<<k[1], "on", k[2]>> : k \in FeasiblePairs}
              /\ {<<printed[i][2], printed[i][6]>> : i \in 2 .. Len(printed)}
                    \subseteq FeasiblePairs
              /\ \A t \in DOMAIN turns : \A s \in DOMAIN stands :
                    Placed(turns[t].turn_id, stands[s]) => feasibility[t][s]

C4_SomePairsPruned ==
    /\ Accepted
    /\ Len(printed) > 1
    /\ \E t \in DOMAIN turns : \E s1, s2 \in DOMAIN stands :
          feasibility[t][s1] /\ ~feasibility[t][s2]

(* C5: when both windows of every rule are the identity window, the        *)
(* solutions of the assembled model are exactly the solutions of the core  *)
(* model in which no two distinct turns with overlapping raw occupancy     *)
(* stand one on stand_a and the other on stand_b.                          *)
C5_RuleRespected(v, rule) ==
    \A k1, k2 \in DictKeys(assignments) :
        (/\ k1[1] # k2[1]
         /\ k1[2] = rule.stand_a
         /\ k2[2] = rule.stand_b
         /\ v[DictGet(assignments, k1).is_present]
         /\ v[DictGet(assignments, k2).is_present])
            => ~RawOverlap(TurnOf(k1[1]), TurnOf(k2[1]))

C5_AllIdentity ==
    \A r \in DOMAIN adjacency_rules :
        /\ adjacency_rules[r].time_constraint_a = IdentityWindow
        /\ adjacency_rules[r].time_constraint_b = IdentityWindow

C5_IdentityRuleForbidsRawOverlap ==
    (Assembled /\ C5_AllIdentity) =>
        Solutions(model) =
            {v \in Solutions(CoreModel) :
                \A r \in DOMAIN adjacency_rules :
                    C5_RuleRespected(v, adjacency_rules[r])}

C5_IdentityRuleExcludes ==
    /\ Accepted
    /\ adjacency_rules # <<>>
    /\ C5_AllIdentity
    /\ \A r \in DOMAIN adjacency_rules :
          adjacency_rules[r].stand_a # adjacency_rules[r].stand_b
    /\ Solutions(model) # Solutions(CoreModel)

(* C6: a window that resolves to start > end for some candidate aborts the *)
(* assembly; no model holding a shadow interval of negative size is ever   *)
(* assembled and solved.                                                   *)
C6_NegativeShadowNeverSolved ==
    Assembled =>
        \A i \in DOMAIN model.intervals :
            model.intervals[i].start <= model.intervals[i].end

(* C7: every shadow interval of the assembled model has                    *)
(* start = (arrival or departure, by start_anchor) + start_offset_minutes  *)
(* and end = (arrival or departure, by end_anchor) + end_offset_minutes,   *)
(* for the (arrival, departure) pair turn_times gives for its turn_id and  *)
(* its side's window, whatever the other turn, the other side and the      *)
(* order of the scan.                                                      *)
C7_Anchor(anchor, times) ==
    CASE anchor = "ARRIVAL" -> times[1]
      [] anchor = "DEPARTURE" -> times[2]

C7_ShadowTimesFollowTheWindow ==
    Assembled =>
        \A r \in DOMAIN adjacency_rules : \A k \in DictKeys(assignments) :
            LET rule == adjacency_rules[r]
                w == IF k[2] = rule.stand_a THEN rule.time_constraint_a
                                            ELSE rule.time_constraint_b
                times == TurnTimes(turns, k[1])
                named == {i \in DOMAIN model.intervals :
                            model.intervals[i].name
                                = <<"Shadow", rule.name, k[1], k[2]>>}
            IN  k[2] \in {rule.stand_a, rule.stand_b} =>
                  /\ Cardinality(named) = 1
                  /\ \A i \in named :
                        /\ model.intervals[i].start =
                              C7_Anchor(w.start_anchor, times)
                                  + w.start_offset_minutes
                        /\ model.intervals[i].end =
                              C7_Anchor(w.end_anchor, times)
                                  + w.end_offset_minutes

C7_MixedAnchorsAndOffsets ==
    /\ Accepted
    /\ \E r \in DOMAIN adjacency_rules :
          /\ adjacency_rules[r].time_constraint_a =
                TimeWindowDefinition("DEPARTURE", 0 - MaxOffset, "ARRIVAL", MaxOffset)
          /\ adjacency_rules[r].time_constraint_b =
                TimeWindowDefinition("ARRIVAL", 0, "ARRIVAL", MaxOffset)
          /\ Placed("1", adjacency_rules[r].stand_a)
          /\ Placed("2", adjacency_rules[r].stand_b)

(* C8: a rule none of whose stands carries a candidate changes nothing:    *)
(* the assembled model is the model assembled without that rule, so the    *)
(* solutions and the outcome of the solve are those of the model without   *)
(* it.                                                                     *)
C8_InactiveRuleAddsNothing ==
    Assembled =>
        \A r \in DOMAIN adjacency_rules :
            ~RuleHasCandidate(adjacency_rules[r]) =>
                LET without == apply_adjacency_rules(CoreModel, turns,
                                                     assignments, WithoutRule(r))
                IN  /\ model = without
                    /\ pc = "solved" =>
                          [status |-> status, solution |-> solution]
                              \in SolverOutcomes(without)

C8_UnknownStandRuleSolved ==
    /\ Accepted
    /\ \E r \in DOMAIN adjacency_rules :
          /\ ~RuleHasCandidate(adjacency_rules[r])
          /\ adjacency_rules[r].stand_a \notin Range(stands)
          /\ adjacency_rules[r].stand_b \in Range(stands)

(* C9: the demo instance of the notebook has a solution with the four      *)
(* turns on four distinct feasible stands, and its solve ends OPTIMAL or   *)
(* FEASIBLE.                                                               *)
C9_IsDemo ==
    /\ turns = DemoTurns
    /\ stands = DemoStands
    /\ feasibility = DemoFeasibility
    /\ adjacency_rules = DemoRules

C9_DistinctStandsSolution ==
    \E v \in Solutions(model) :
        \A k1, k2 \in DictKeys(assignments) :
            (k1 # k2 /\ v[DictGet(assignments, k1).is_present]
                     /\ v[DictGet(assignments, k2).is_present])
                => k1[2] # k2[2]

C9_DemoIsSatisfiable ==
    (C9_IsDemo /\ Assembled) =>
        /\ C9_DistinctStandsSolution
        /\ pc = "solved" => Accepted

C9_DemoOnDistinctStands ==
    /\ C9_IsDemo
    /\ Accepted
    /\ Len(printed) = 1 + Len(turns)
    /\ Cardinality({printed[i][6] : i \in 2 .. Len(printed)}) = Len(turns)

(* C10: in every accepted solution, for every rule, the shadow intervals   *)
(* of any two selected candidates on stand_a or stand_b are disjoint, also *)
(* when both candidates stand on the same side of the rule.                *)
C10_Shadow(rule, k) ==
    LET w == IF k[2] = rule.stand_a THEN rule.time_constraint_a
                                    ELSE rule.time_constraint_b
        turn == TurnOf(k[1])
    IN  _compute_shadow_times(turn.arrival_time, turn.departure_time, w)

C10_ShadowsDisjoint(rule, k1, k2) ==
    \/ C10_Shadow(rule, k1)[2] <= C10_Shadow(rule, k2)[1]
    \/ C10_Shadow(rule, k2)[2] <= C10_Shadow(rule, k1)[1]

C10_SelectedShadowsDisjoint ==
    Accepted =>
        \A r \in DOMAIN adjacency_rules : \A k1, k2 \in DictKeys(assignments) :
            (/\ k1 # k2
             /\ k1[2] \in {adjacency_rules[r].stand_a, adjacency_rules[r].stand_b}
             /\ k2[2] \in {adjacency_rules[r].stand_a, adjacency_rules[r].stand_b}
             /\ Placed(k1[1], k1[2])
             /\ Placed(k2[1], k2[2]))
                => C10_ShadowsDisjoint(adjacency_rules[r], k1, k2)

C10_SameSidePairExcluded ==
    /\ Accepted
    /\ \E r \in DOMAIN adjacency_rules : \E k1, k2 \in DictKeys(assignments) :
          /\ k1[1] # k2[1]
          /\ k1[2] = adjacency_rules[r].stand_a
          /\ k2[2] = adjacency_rules[r].stand_a
          /\ ~RawOverlap(TurnOf(k1[1]), TurnOf(k2[1]))
          /\ ~C10_ShadowsDisjoint(adjacency_rules[r], k1, k2)
          /\ \E v \in Solutions(CoreModel) :
                /\ v[DictGet(assignments, k1).is_present]
                /\ v[DictGet(assignments, k2).is_present]
          /\ ~(Placed(k1[1], k1[2]) /\ Placed(k2[1], k2[2]))

====
